---- MODULE Spec2Model ----
(***************************************************************************)
(* A model of the sandboxed file-system MCP server of src/main.py:         *)
(* FileSystemServer._validate_path, the five tool handlers and the         *)
(* call_tool dispatcher, over an explicit POSIX file-system state.         *)
(*                                                                         *)
(* Python strings are sequences of one-character strings, so that          *)
(* str.startswith, Path.suffix and the "/" splitting of pathlib are        *)
(* computed character by character.  File contents are sequences of bytes  *)
(* (integers); the text written and read is a sequence of code points that *)
(* is encoded and decoded as UTF-8, with the universal-newline translation *)
(* that Path.read_text applies.                                            *)
(***************************************************************************)
EXTENDS Integers, Sequences, FiniteSets, TLC

VARIABLES
    config,     \* self.config: the policy loaded by __init__ (never reassigned)
    fs,         \* the file system: absolute path (sequence of names) -> node
    lifecycle,  \* "serving", or "terminated" once a fault has left call_tool
    last,       \* the last invocation: the tool's name and the value returned
    pc,         \* race specification: the handler's position between system calls
    cur,        \* race specification: the invocation in progress
    ext         \* race specification: what the out-of-process actor has done

vars == <<config, fs, lifecycle, last, pc, cur, ext>>

----------------------------------------------------------------------------
(* Bounds of the model. *)

\* Longest text (in code points) passed as write_file's content.
MaxContentLen == 1

\* The max_file_size of the configuration (bytes).
MaxFileSize == 1

\* Most mutations the out-of-process actor performs in one run of SpecRace.
MaxExternal == 2

----------------------------------------------------------------------------
(* Strings and names. *)

Slash == "/"
Dot == "."

\* The name of the sandbox directory, "sb"; the sandbox root is /sb.
SB == <<"s", "b">>
\* A sibling of the sandbox whose name begins with the sandbox's name: /sbx.
SBX == <<"s", "b", "x">>
\* Names used inside the sandbox: "d", "a.t", "a.b", and the link "l".
NameD == <<"d">>
NameAT == <<"a", ".", "t">>
NameAB == <<"a", ".", "b">>
NameL == <<"l">>
DotDot == <<".", ".">>

\* str.startswith(prefix)
startswith(s, prefix) ==
    /\ Len(prefix) <= Len(s)
    /\ SubSeq(s, 1, Len(prefix)) = prefix

\* str(path) of an absolute path given by its names: "/" + "/".join(names)
RECURSIVE JoinNames(_)
JoinNames(p) ==
    IF p = <<>> THEN <<>>
    ELSE <<Slash>> \o Head(p) \o JoinNames(Tail(p))

str(p) == IF p = <<>> THEN <<Slash>> ELSE JoinNames(p)

\* PurePosixPath parsing: the string split at "/", empty and "." parts dropped.
RECURSIVE SplitFrom(_, _, _)
SplitFrom(s, i, acc) ==
    IF i > Len(s)
    THEN IF acc = <<>> \/ acc = <<Dot>> THEN <<>> ELSE <<acc>>
    ELSE IF s[i] = Slash
         THEN (IF acc = <<>> \/ acc = <<Dot>> THEN <<>> ELSE <<acc>>)
              \o SplitFrom(s, i + 1, <<>>)
         ELSE SplitFrom(s, i + 1, Append(acc, s[i]))

parts(s) == SplitFrom(s, 1, <<>>)

is_absolute(s) == Len(s) > 0 /\ s[1] = Slash

\* PurePath.name: the final component, "" for the root.
name(p) == IF p = <<>> THEN <<>> ELSE p[Len(p)]

\* str.rfind("."), 1-based, 0 when there is no dot.
rfind_dot(n) ==
    LET I == {i \in 1..Len(n) : n[i] = Dot}
    IN IF I = {} THEN 0 ELSE CHOOSE i \in I : \A j \in I : j <= i

\* PurePath.suffix: name[i:] when the last dot is neither the first nor the
\* last character of the name, else "".
suffix(p) ==
    LET n == name(p)
        i == rfind_dot(n)
    IN IF 1 < i /\ i < Len(n) THEN SubSeq(n, i, Len(n)) ELSE <<>>

parent(p) == IF p = <<>> THEN <<>> ELSE SubSeq(p, 1, Len(p) - 1)

----------------------------------------------------------------------------
(* Text and bytes.  A text is a sequence of code points, named "CR"        *)
(* (U+000D, one byte in UTF-8), "LF" (U+000A), "a" (U+0061), "E9" (U+00E9,  *)
(* two bytes in UTF-8) and "D800" (a lone surrogate, which a JSON string    *)
(* can carry and UTF-8 cannot encode).  The texts written are made of "CR", *)
(* "E9" and "D800"; "LF" and "a" appear in what is read back.               *)

CodePoints == {"CR", "E9", "D800"}

Ok(v) == [exc |-> "none", ret |-> v]
Raise(e) == [exc |-> e, ret |-> <<>>]

utf8(c) ==
    CASE c = "a" -> <<97>>
      [] c = "CR" -> <<13>>
      [] c = "LF" -> <<10>>
      [] c = "E9" -> <<195, 169>>
      [] OTHER -> <<>>

\* str.encode('utf-8'): raises UnicodeEncodeError on a lone surrogate.
RECURSIVE encode(_)
encode(text) ==
    IF text = <<>> THEN Ok(<<>>)
    ELSE IF Head(text) = "D800" THEN Raise("UnicodeEncodeError")
    ELSE LET rest == encode(Tail(text))
         IN IF rest.exc # "none" THEN rest
            ELSE Ok(utf8(Head(text)) \o rest.ret)

\* bytes.decode('utf-8'): raises UnicodeDecodeError on an invalid sequence.
RECURSIVE decode(_)
decode(bytes) ==
    IF bytes = <<>> THEN Ok(<<>>)
    ELSE LET b == Head(bytes)
             one == CASE b = 97 -> "a" [] b = 13 -> "CR" [] b = 10 -> "LF"
                      [] OTHER -> "bad"
         IN IF one # "bad"
            THEN LET rest == decode(Tail(bytes))
                 IN IF rest.exc # "none" THEN rest ELSE Ok(<<one>> \o rest.ret)
            ELSE IF b = 195 /\ Len(bytes) >= 2 /\ bytes[2] = 169
            THEN LET rest == decode(SubSeq(bytes, 3, Len(bytes)))
                 IN IF rest.exc # "none" THEN rest ELSE Ok(<<"E9">> \o rest.ret)
            ELSE Raise("UnicodeDecodeError")

\* The universal-newline translation of a text-mode read (newline=None):
\* "\r\n" and "\r" both become "\n".
RECURSIVE universal_newlines(_)
universal_newlines(text) ==
    IF text = <<>> THEN <<>>
    ELSE IF Head(text) = "CR"
    THEN IF Len(text) >= 2 /\ text[2] = "LF"
         THEN <<"LF">> \o universal_newlines(SubSeq(text, 3, Len(text)))
         ELSE <<"LF">> \o universal_newlines(Tail(text))
    ELSE <<Head(text)>> \o universal_newlines(Tail(text))

----------------------------------------------------------------------------
(* The file system.  fs maps each existing absolute path (a sequence of     *)
(* names, <<>> being "/") to its node: a directory, a regular file with its *)
(* bytes, or a symbolic link with its absolute target.                      *)

Dir == [kind |-> "dir"]
File(bytes) == [kind |-> "file", data |-> bytes]
Link(to) == [kind |-> "link", to |-> to]

Put(f, p, node) == [q \in DOMAIN f \cup {p} |-> IF q = p THEN node ELSE f[q]]
Remove(f, p) == [q \in DOMAIN f \ {p} |-> f[q]]

\* os.path.realpath (non-strict): walk the components from "/", ".." pops,
\* a symbolic link is replaced by its target, a missing component is kept.
RECURSIVE realpath(_, _, _)
realpath(f, at, rest) ==
    IF rest = <<>> THEN at
    ELSE IF Head(rest) = DotDot THEN realpath(f, parent(at), Tail(rest))
    ELSE LET np == Append(at, Head(rest))
         IN IF np \in DOMAIN f /\ f[np].kind = "link"
            THEN realpath(f, <<>>, f[np].to \o Tail(rest))
            ELSE realpath(f, np, Tail(rest))

\* What a system call finds at p, following symbolic links: a node, or the
\* error of the lookup (ENOENT, or ENOTDIR below a regular file).
RECURSIVE Lookup(_, _, _)
Lookup(f, at, rest) ==
    IF at \notin DOMAIN f THEN [err |-> "FileNotFoundError"]
    ELSE IF f[at].kind = "link" THEN Lookup(f, <<>>, f[at].to \o rest)
    ELSE IF rest = <<>> THEN [err |-> "none", at |-> at, node |-> f[at]]
    ELSE IF f[at].kind # "dir" THEN [err |-> "NotADirectoryError"]
    ELSE IF Head(rest) = DotDot THEN Lookup(f, parent(at), Tail(rest))
    ELSE Lookup(f, Append(at, Head(rest)), Tail(rest))

stat(f, p) == Lookup(f, <<>>, p)

\* Path.exists / is_dir / is_file: False on ENOENT and ENOTDIR.
exists(f, p) == stat(f, p).err = "none"
is_dir(f, p) == stat(f, p).err = "none" /\ stat(f, p).node.kind = "dir"
is_file(f, p) == stat(f, p).err = "none" /\ stat(f, p).node.kind = "file"

children(f, p) == {q \in DOMAIN f : q # <<>> /\ parent(q) = p}

\* os.mkdir(p)
os_mkdir(f, p) ==
    IF p = <<>> THEN [exc |-> "FileExistsError", fs |-> f]
    ELSE LET up == stat(f, parent(p))
         IN IF up.err # "none" THEN [exc |-> up.err, fs |-> f]
            ELSE IF up.node.kind # "dir" THEN [exc |-> "NotADirectoryError", fs |-> f]
            ELSE IF Append(up.at, name(p)) \in DOMAIN f
                 THEN [exc |-> "FileExistsError", fs |-> f]
            ELSE [exc |-> "none", fs |-> Put(f, Append(up.at, name(p)), Dir)]

\* Path.mkdir(parents=True, exist_ok=True)
RECURSIVE mkdir_parents(_, _)
mkdir_parents(f, p) ==
    LET r == os_mkdir(f, p)
    IN IF r.exc = "none" THEN r
       ELSE IF r.exc = "FileNotFoundError"
       THEN IF parent(p) = p THEN r
            ELSE LET up == mkdir_parents(f, parent(p))
                 IN IF up.exc # "none" THEN up ELSE os_mkdir(up.fs, p)
       ELSE IF is_dir(f, p) THEN [exc |-> "none", fs |-> f]
       ELSE r

\* open(p, 'w') then write: Path.write_text(content, encoding='utf-8')
write_text(f, p, text) ==
    LET up == stat(f, parent(p))
        at == Append(up.at, name(p))
        enc == encode(text)
    IN IF p = <<>> THEN [exc |-> "IsADirectoryError", fs |-> f]
       ELSE IF up.err # "none" THEN [exc |-> up.err, fs |-> f]
       ELSE IF up.node.kind # "dir" THEN [exc |-> "NotADirectoryError", fs |-> f]
       ELSE IF at \in DOMAIN f /\ f[at].kind = "dir"
            THEN [exc |-> "IsADirectoryError", fs |-> f]
       ELSE IF enc.exc # "none" THEN [exc |-> enc.exc, fs |-> Put(f, at, File(<<>>))]
       ELSE [exc |-> "none", fs |-> Put(f, at, File(enc.ret))]

\* Path.read_text(encoding='utf-8')
read_text(f, p) ==
    LET st == stat(f, p)
    IN IF st.err # "none" THEN Raise(st.err)
       ELSE IF st.node.kind = "dir" THEN Raise("IsADirectoryError")
       ELSE LET dec == decode(st.node.data)
            IN IF dec.exc # "none" THEN dec
               ELSE Ok(universal_newlines(dec.ret))

\* Path.stat().st_size of a regular file
st_size(f, p) == Len(stat(f, p).node.data)

\* Path.unlink()
unlink(f, p) ==
    IF p \notin DOMAIN f THEN [exc |-> stat(f, p).err, fs |-> f]
    ELSE IF f[p].kind = "dir" THEN [exc |-> "IsADirectoryError", fs |-> f]
    ELSE [exc |-> "none", fs |-> Remove(f, p)]

\* Mutant of rmdir: a recursive removal (shutil.rmtree) of the directory.
rmdir_recursive(f, p) ==
    IF p \notin DOMAIN f THEN [exc |-> "FileNotFoundError", fs |-> f]
    ELSE IF f[p].kind # "dir" THEN [exc |-> "NotADirectoryError", fs |-> f]
    ELSE [exc |-> "none",
          fs |-> [q \in {x \in DOMAIN f : ~(Len(x) >= Len(p) /\ SubSeq(x, 1, Len(p)) = p)}
                      |-> f[q]]]

\* Path.rmdir(): the directory must exist and be empty.
rmdir(f, p) ==
    IF p \notin DOMAIN f THEN [exc |-> "FileNotFoundError", fs |-> f]
    ELSE IF f[p].kind # "dir" THEN [exc |-> "NotADirectoryError", fs |-> f]
    ELSE IF p = <<>> THEN [exc |-> "OSError", fs |-> f]
    ELSE IF children(f, p) # {} THEN [exc |-> "OSError", fs |-> f]
    ELSE [exc |-> "none", fs |-> Remove(f, p)]

----------------------------------------------------------------------------
(* The server: FileSystemServer of src/main.py. *)

\* self.sandbox_path, resolved by __init__: /sb
sandbox_path == <<SB>>

\* q lies strictly below the sandbox root.
SegmentBelow(q) ==
    /\ Len(q) > Len(sandbox_path)
    /\ SubSeq(q, 1, Len(sandbox_path)) = sandbox_path

\* TextContent(type="text", text=...): the text is a message and what is
\* formatted into it (the path, the content read, the fault's description).
TextContent(msg, arg) == [type |-> "text", text |-> <<msg, arg>>]

Returns(f, msg, arg) == [exc |-> "none", ret |-> <<TextContent(msg, arg)>>, fs |-> f]
Raises(f, e) == [exc |-> e, ret |-> <<>>, fs |-> f]

\* (self.sandbox_path / path).resolve()
resolve(f, path) ==
    realpath(f, <<>>, (IF is_absolute(path) THEN <<>> ELSE sandbox_path) \o parts(path))

\* The containment test of _validate_path: a prefix test on the two strings.
within_sandbox(target_path) == startswith(str(target_path), str(sandbox_path))

_validate_path(f, path) ==
    LET target_path == resolve(f, path)
    IN IF ~within_sandbox(target_path) THEN Raise("ValueError") ELSE Ok(target_path)

\* Code-point order of the characters of names, for sorted().
ord(c) ==
    CASE c = "." -> 46 [] c = "a" -> 97 [] c = "b" -> 98 [] c = "d" -> 100
      [] c = "l" -> 108 [] c = "s" -> 115 [] c = "t" -> 116 [] c = "x" -> 120
      [] OTHER -> 0

RECURSIVE str_lt(_, _)
str_lt(a, b) ==
    IF b = <<>> THEN FALSE
    ELSE IF a = <<>> THEN TRUE
    ELSE IF ord(Head(a)) # ord(Head(b)) THEN ord(Head(a)) < ord(Head(b))
    ELSE str_lt(Tail(a), Tail(b))

\* sorted(target_path.iterdir()): the children in the order of their names.
RECURSIVE sorted(_)
sorted(S) ==
    IF S = {} THEN <<>>
    ELSE LET m == CHOOSE q \in S : \A r \in S \ {q} : str_lt(name(q), name(r))
         IN <<m>> \o sorted(S \ {m})

\* One line of the listing: f"{item_type:4} {size:>10} {item.name}"
list_item(f, item) ==
    [item_type |-> IF is_dir(f, item) THEN "dir" ELSE "file",
     size |-> IF is_file(f, item) THEN <<st_size(f, item)>> ELSE <<"-">>,
     name |-> name(item)]

_list_files(cfg, f, path) ==
    LET v == _validate_path(f, path)
        target_path == v.ret
        items == sorted(children(f, target_path))
    IN IF v.exc # "none" THEN Raises(f, v.exc)
       ELSE IF ~exists(f, target_path) THEN Returns(f, "Path does not exist: ", path)
       ELSE IF ~is_dir(f, target_path) THEN Returns(f, "Path is not a directory: ", path)
       ELSE Returns(f, "Contents of ",
                    <<path, [i \in 1..Len(items) |-> list_item(f, items[i])]>>)

_read_file(cfg, f, path) ==
    LET v == _validate_path(f, path)
        target_path == v.ret
        content == read_text(f, target_path)
    IN IF v.exc # "none" THEN Raises(f, v.exc)
       ELSE IF ~exists(f, target_path) THEN Returns(f, "File does not exist: ", path)
       ELSE IF ~is_file(f, target_path) THEN Returns(f, "Path is not a file: ", path)
       ELSE IF st_size(f, target_path) > cfg.max_file_size
            THEN Returns(f, "File too large (max bytes)", <<cfg.max_file_size>>)
       ELSE IF content.exc = "UnicodeDecodeError"
            THEN Returns(f, "Error: File contains non-UTF-8 content", <<>>)
       ELSE IF content.exc # "none" THEN Raises(f, content.exc)
       ELSE Returns(f, "", content.ret)

\* Mutant of read_only_mode: the read_only flag is never consulted.
read_only_ignored(cfg) == FALSE

\* if self.config.read_only: (the first statement of the mutating handlers)
read_only_mode(cfg) == cfg.read_only

\* Mutant of extension_rejected: without the "target_path.suffix and" guard,
\* so that an extensionless path is rejected too.
extension_rejected_unguarded(cfg, target_path) ==
    suffix(target_path) \notin cfg.allowed_extensions

\* target_path.suffix and target_path.suffix not in allowed_extensions
extension_rejected(cfg, target_path) ==
    /\ suffix(target_path) # <<>>
    /\ suffix(target_path) \notin cfg.allowed_extensions

\* Mutant of content_too_large: ">=" for ">".
content_too_large_inclusive(cfg, encoded) == Len(encoded) >= cfg.max_file_size

\* len(content.encode('utf-8')) > self.config.max_file_size
content_too_large(cfg, encoded) == Len(encoded) > cfg.max_file_size

_write_file(cfg, f, path, content) ==
    LET v == _validate_path(f, path)
        target_path == v.ret
        enc == encode(content)
        made == mkdir_parents(f, parent(target_path))
        written == write_text(made.fs, target_path, content)
    IN IF read_only_mode(cfg) THEN Returns(f, "Server is in read-only mode", <<>>)
       ELSE IF v.exc # "none" THEN Raises(f, v.exc)
       ELSE IF extension_rejected(cfg, target_path)
            THEN Returns(f, "File extension not allowed: ", suffix(target_path))
       ELSE IF enc.exc # "none" THEN Raises(f, enc.exc)
       ELSE IF content_too_large(cfg, enc.ret)
            THEN Returns(f, "Content too large (max bytes)", <<cfg.max_file_size>>)
       ELSE IF made.exc # "none" THEN Raises(made.fs, made.exc)
       ELSE IF written.exc # "none" THEN Raises(written.fs, written.exc)
       ELSE Returns(written.fs, "File written successfully: ", path)

_create_directory(cfg, f, path) ==
    LET v == _validate_path(f, path)
        target_path == v.ret
        made == mkdir_parents(f, target_path)
    IN IF read_only_mode(cfg) THEN Returns(f, "Server is in read-only mode", <<>>)
       ELSE IF v.exc # "none" THEN Raises(f, v.exc)
       ELSE IF exists(f, target_path) THEN Returns(f, "Path already exists: ", path)
       ELSE IF made.exc # "none" THEN Raises(made.fs, made.exc)
       ELSE Returns(made.fs, "Directory created successfully: ", path)

_delete_file(cfg, f, path) ==
    LET v == _validate_path(f, path)
        target_path == v.ret
        unlinked == unlink(f, target_path)
        removed == rmdir(f, target_path)
    IN IF read_only_mode(cfg) THEN Returns(f, "Server is in read-only mode", <<>>)
       ELSE IF v.exc # "none" THEN Raises(f, v.exc)
       ELSE IF ~exists(f, target_path) THEN Returns(f, "Path does not exist: ", path)
       ELSE IF is_file(f, target_path)
            THEN IF unlinked.exc # "none" THEN Raises(f, unlinked.exc)
                 ELSE Returns(unlinked.fs, "File deleted successfully: ", path)
       ELSE IF is_dir(f, target_path)
            THEN IF removed.exc # "none" THEN Returns(f, "Directory not empty: ", path)
                 ELSE Returns(removed.fs, "Directory deleted successfully: ", path)
       ELSE Returns(f, "Unknown path type: ", path)

ToolNames == {"list_files", "read_file", "write_file", "create_directory", "delete_file"}

\* The body of call_tool's try: the lookup of the arguments (a KeyError when
\* one is missing) and the handler.
operation(cfg, f, tool, arguments) ==
    IF tool \in ToolNames /\ "path" \notin DOMAIN arguments THEN Raises(f, "KeyError")
    ELSE IF tool = "list_files" THEN _list_files(cfg, f, arguments.path)
    ELSE IF tool = "read_file" THEN _read_file(cfg, f, arguments.path)
    ELSE IF tool = "write_file"
         THEN IF "content" \notin DOMAIN arguments THEN Raises(f, "KeyError")
              ELSE _write_file(cfg, f, arguments.path, arguments.content)
    ELSE IF tool = "create_directory" THEN _create_directory(cfg, f, arguments.path)
    ELSE IF tool = "delete_file" THEN _delete_file(cfg, f, arguments.path)
    ELSE Returns(f, "Unknown tool: ", tool)

\* Mutant of except_Exception: no except clause, the fault leaves call_tool.
except_nothing(r) == r

\* Mutant of except_Exception: "except ValueError", too narrow a clause, so
\* that an OSError of a file-system call leaves call_tool.
except_ValueError(r) ==
    IF r.exc = "ValueError" THEN Returns(r.fs, "Error: ", r.exc) ELSE r

\* except Exception as e: return [TextContent(type="text", text=f"Error: {str(e)}")]
except_Exception(r) ==
    IF r.exc # "none" THEN Returns(r.fs, "Error: ", r.exc) ELSE r

call_tool(cfg, f, tool, arguments) ==
    except_Exception(operation(cfg, f, tool, arguments))

----------------------------------------------------------------------------
(* Inputs. *)

\* The path arguments: "", "d", "d/a.t", "a.b", "d/..", "..", "/d",
\* "../sbx/a.b" (in the sibling whose name begins with the sandbox's) and
\* "l/a.b" (through the symbolic link l).
InputPaths ==
    { <<>>,
      NameD,
      NameD \o <<Slash>> \o NameAT,
      NameAB,
      NameD \o <<Slash>> \o DotDot,
      DotDot,
      <<Slash>> \o NameD,
      DotDot \o <<Slash>> \o SBX \o <<Slash>> \o NameAB,
      NameL \o <<Slash>> \o NameAB }

RECURSIVE Texts(_)
Texts(n) ==
    IF n = 0 THEN {<<>>}
    ELSE LET shorter == Texts(n - 1)
         IN shorter \cup {Append(t, c) : t \in {u \in shorter : Len(u) = n - 1},
                                         c \in CodePoints}

\* The content arguments: every text of at most MaxContentLen code points.
InputContents == Texts(MaxContentLen)

UnknownTools == {"move_file"}

----------------------------------------------------------------------------
(* Initial states.  __init__ loads the configuration and creates the        *)
(* sandbox directory if it does not exist: the sandbox is empty, or holds   *)
(* what an earlier run or the operator left in it.                          *)

Configs ==
    [max_file_size : {MaxFileSize},
     allowed_extensions : {{<<".", "t">>}},
     read_only : BOOLEAN]

EmptySandbox ==
    (<<>> :> Dir) @@ (<<SB>> :> Dir) @@ (<<SBX>> :> Dir)

\* /sb/l -> /sbx, /sb/d/a.t larger than any max_file_size of the model,
\* /sb/a.b a binary file that is not UTF-8.
SeededSandbox ==
    EmptySandbox
    @@ (<<SB, NameL>> :> Link(<<SBX>>))
    @@ (<<SB, NameD>> :> Dir)
    @@ (<<SB, NameD, NameAT>> :> File([i \in 1..(MaxFileSize + 1) |-> 97]))
    @@ (<<SB, NameAB>> :> File(<<255>>))

NoCall == [name |-> "none", result |-> <<>>]
NoInvocation == [tool |-> "none", path |-> <<>>, target_path |-> <<>>, raced |-> FALSE]

Init ==
    /\ config \in Configs
    /\ fs \in {EmptySandbox, SeededSandbox}
    /\ lifecycle = "serving"
    /\ last = NoCall
    /\ pc = "idle"
    /\ cur = NoInvocation
    /\ ext = 0

----------------------------------------------------------------------------
(* The atomic specification: the transport delivers one invocation at a     *)
(* time and call_tool runs it to completion.                                *)

Invoke(tool, arguments) ==
    LET r == call_tool(config, fs, tool, arguments)
    IN /\ fs' = r.fs
       /\ last' = [name |-> tool, result |-> r.ret]
       /\ lifecycle' = IF r.exc = "none" THEN "serving" ELSE "terminated"
       /\ UNCHANGED <<config, pc, cur, ext>>

ListFiles ==
    /\ lifecycle = "serving"
    /\ \E path \in InputPaths : Invoke("list_files", [path |-> path])

ReadFile ==
    /\ lifecycle = "serving"
    /\ \E path \in InputPaths : Invoke("read_file", [path |-> path])

WriteFile ==
    /\ lifecycle = "serving"
    /\ \E path \in InputPaths, content \in InputContents :
           Invoke("write_file", [path |-> path, content |-> content])

CreateDirectory ==
    /\ lifecycle = "serving"
    /\ \E path \in InputPaths : Invoke("create_directory", [path |-> path])

DeleteFile ==
    /\ lifecycle = "serving"
    /\ \E path \in InputPaths : Invoke("delete_file", [path |-> path])

UnknownTool ==
    /\ lifecycle = "serving"
    /\ \E tool \in UnknownTools, path \in InputPaths : Invoke(tool, [path |-> path])

\* An argument mapping without "path", or a write_file without "content".
MissingArgument ==
    /\ lifecycle = "serving"
    /\ \/ \E tool \in ToolNames : Invoke(tool, <<>>)
       \/ \E path \in InputPaths : Invoke("write_file", [path |-> path])

Next ==
    \/ ListFiles
    \/ ReadFile
    \/ WriteFile
    \/ CreateDirectory
    \/ DeleteFile
    \/ UnknownTool
    \/ MissingArgument

Spec == Init /\ [][Next]_vars

----------------------------------------------------------------------------
(* The race specification: _read_file and _delete_file taken one system     *)
(* call at a time, with an out-of-process actor that removes files and      *)
(* empty directories of the sandbox and creates files in it between the     *)
(* calls.  The server holds no lock on the tree (spec section 5).           *)

RaceTools == {"read_file", "delete_file"}

\* The files the out-of-process actor creates: d/a.t, holding "\r".
ExternalFiles == {<<SB, NameD, NameAT>>}

\* The invocation returns: the value goes through call_tool's except clause.
Finish(c, r) ==
    LET out == except_Exception(r)
    IN /\ cur' = c
       /\ fs' = out.fs
       /\ last' = [name |-> c.tool, result |-> out.ret]
       /\ lifecycle' = IF out.exc = "none" THEN "serving" ELSE "terminated"
       /\ pc' = "idle"
       /\ UNCHANGED <<config, ext>>

Continue(next) ==
    /\ pc' = next
    /\ UNCHANGED <<config, fs, lifecycle, last, cur, ext>>

\* _read_file, line 174: target_path = self._validate_path(path)
StartRead ==
    \E path \in InputPaths :
        LET v == _validate_path(fs, path)
            c == [tool |-> "read_file", path |-> path,
                  target_path |-> v.ret, raced |-> FALSE]
        IN /\ pc = "idle"
           /\ lifecycle = "serving"
           /\ IF v.exc # "none"
              THEN Finish(c, Raises(fs, v.exc))
              ELSE /\ pc' = "exists"
                   /\ cur' = c
                   /\ UNCHANGED <<config, fs, lifecycle, last, ext>>

\* line 176: if not target_path.exists()
ReadExists ==
    /\ pc = "exists" /\ cur.tool = "read_file"
    /\ IF ~exists(fs, cur.target_path)
       THEN Finish(cur, Returns(fs, "File does not exist: ", cur.path))
       ELSE Continue("is_file")

\* line 179: if not target_path.is_file()
ReadIsFile ==
    /\ pc = "is_file" /\ cur.tool = "read_file"
    /\ IF ~is_file(fs, cur.target_path)
       THEN Finish(cur, Returns(fs, "Path is not a file: ", cur.path))
       ELSE Continue("stat")

\* line 183: if target_path.stat().st_size > self.config.max_file_size
ReadStat ==
    /\ pc = "stat" /\ cur.tool = "read_file"
    /\ IF stat(fs, cur.target_path).err # "none"
       THEN Finish(cur, Raises(fs, stat(fs, cur.target_path).err))
       ELSE IF st_size(fs, cur.target_path) > config.max_file_size
       THEN Finish(cur, Returns(fs, "File too large (max bytes)", <<config.max_file_size>>))
           
       ELSE Continue("read_text")

\* lines 186-190: content = target_path.read_text(encoding='utf-8')
ReadText ==
    LET content == read_text(fs, cur.target_path)
    IN /\ pc = "read_text" /\ cur.tool = "read_file"
      
       /\ IF content.exc = "UnicodeDecodeError"
          THEN Finish(cur, Returns(fs, "Error: File contains non-UTF-8 content", <<>>))
          ELSE IF content.exc # "none" THEN Finish(cur, Raises(fs, content.exc))
          ELSE Finish(cur, Returns(fs, "", content.ret))

\* _delete_file, lines 228-231: the read-only test and _validate_path
StartDelete ==
    \E path \in InputPaths :
        LET v == _validate_path(fs, path)
            c == [tool |-> "delete_file", path |-> path,
                  target_path |-> v.ret, raced |-> FALSE]
        IN /\ pc = "idle"
           /\ lifecycle = "serving"
           /\ IF read_only_mode(config)
              THEN Finish(c, Returns(fs, "Server is in read-only mode", <<>>))
              ELSE IF v.exc # "none"
              THEN Finish(c, Raises(fs, v.exc))
              ELSE /\ pc' = "exists"
                   /\ cur' = c
                   /\ UNCHANGED <<config, fs, lifecycle, last, ext>>

\* line 233: if not target_path.exists()
DeleteExists ==
    /\ pc = "exists" /\ cur.tool = "delete_file"
    /\ IF ~exists(fs, cur.target_path)
       THEN Finish(cur, Returns(fs, "Path does not exist: ", cur.path))
       ELSE Continue("is_file")

\* line 236: if target_path.is_file()
DeleteIsFile ==
    /\ pc = "is_file" /\ cur.tool = "delete_file"
    /\ IF is_file(fs, cur.target_path) THEN Continue("unlink") ELSE Continue("is_dir")

\* lines 237-238: target_path.unlink()
DeleteUnlink ==
    LET unlinked == unlink(fs, cur.target_path)
    IN /\ pc = "unlink" /\ cur.tool = "delete_file"
      
       /\ IF unlinked.exc # "none" THEN Finish(cur, Raises(fs, unlinked.exc))
          ELSE Finish(cur, Returns(unlinked.fs, "File deleted successfully: ", cur.path))

\* lines 239, 246-247: elif target_path.is_dir() ... else "Unknown path type"
DeleteIsDir ==
    /\ pc = "is_dir" /\ cur.tool = "delete_file"
    /\ IF is_dir(fs, cur.target_path)
       THEN Continue("rmdir")
       ELSE Finish(cur, Returns(fs, "Unknown path type: ", cur.path))

\* lines 241-245: try: target_path.rmdir() ... except OSError: "not empty"
DeleteRmdir ==
    LET removed == rmdir(fs, cur.target_path)
    IN /\ pc = "rmdir" /\ cur.tool = "delete_file"
      
       /\ IF removed.exc # "none"
          THEN Finish(cur, Returns(fs, "Directory not empty: ", cur.path))
          ELSE Finish(cur, Returns(removed.fs, "Directory deleted successfully: ", cur.path))

\* One step of the invocation in progress.
ServerStep ==
    \/ ReadExists
    \/ ReadIsFile
    \/ ReadStat
    \/ ReadText
    \/ DeleteExists
    \/ DeleteIsFile
    \/ DeleteUnlink
    \/ DeleteIsDir
    \/ DeleteRmdir

\* The out-of-process actor acts while an invocation is in progress; raced
\* records that it removed the invocation's target or put a file into it.
External(f, hit) ==
    /\ pc # "idle"
    /\ ext < MaxExternal
    /\ fs' = f
    /\ ext' = ext + 1
    /\ cur' = [cur EXCEPT !.raced = cur.raced \/ hit]
    /\ UNCHANGED <<config, lifecycle, last, pc>>

ExternalUnlink ==
    \E q \in DOMAIN fs :
        /\ SegmentBelow(q) /\ fs[q].kind = "file"
        /\ External(Remove(fs, q), q = cur.target_path)

ExternalRmdir ==
    \E q \in DOMAIN fs :
        /\ SegmentBelow(q) /\ fs[q].kind = "dir" /\ children(fs, q) = {}
        /\ External(Remove(fs, q), q = cur.target_path)

ExternalCreate ==
    \E q \in ExternalFiles :
        /\ q \notin DOMAIN fs /\ is_dir(fs, parent(q))
        /\ External(Put(fs, q, File(<<13>>)), parent(q) = cur.target_path)

NextRace ==
    \/ StartRead
    \/ StartDelete
    \/ ServerStep
    \/ ExternalUnlink
    \/ ExternalRmdir
    \/ ExternalCreate

InitRace == Init /\ ~config.read_only

SpecRace == InitRace /\ [][NextRace]_vars

----------------------------------------------------------------------------
(* Properties of the atomic specification.  Each one quantifies over the    *)
(* invocations the transport can deliver in the current state and states    *)
(* what call_tool returns and does to the file system there.                *)

PathArgs == {[path |-> p] : p \in InputPaths}
WriteArgs == {[path |-> p, content |-> c] : p \in InputPaths, c \in InputContents}

Message(r) == r.ret[1].text[1]
ReadOnlyRejection(f) == Returns(f, "Server is in read-only mode", <<>>)
PathEscapeFailure == <<TextContent("Error: ", "ValueError")>>

\* Path-segment containment: p is the sandbox root or lies below it.
SegmentWithin(p) ==
    /\ Len(p) >= Len(sandbox_path)
    /\ SubSeq(p, 1, Len(sandbox_path)) = sandbox_path

\* C1: _validate_path returns only paths that are the sandbox root or
\* path-segment descendants of it; every other path fails with the
\* path-escape error.
C1_Containment ==
    \A p \in InputPaths :
        LET v == _validate_path(fs, p)
        IN v.exc = "none" => SegmentWithin(v.ret)

\* C2: with read_only true, write_file, create_directory and delete_file
\* return the read-only rejection and leave the file system as it was, for
\* every argument, while list_files and read_file return what they return
\* with read_only false.
C2_ReadOnlyEnforcement ==
    config.read_only =>
        /\ \A a \in WriteArgs :
               call_tool(config, fs, "write_file", a) = ReadOnlyRejection(fs)
        /\ \A a \in PathArgs :
               /\ call_tool(config, fs, "create_directory", a) = ReadOnlyRejection(fs)
               /\ call_tool(config, fs, "delete_file", a) = ReadOnlyRejection(fs)
        /\ \A a \in PathArgs : \A tool \in {"list_files", "read_file"} :
               LET ro == call_tool(config, fs, tool, a)
                   rw == call_tool([config EXCEPT !.read_only = FALSE], fs, tool, a)
               IN /\ Message(ro) = Message(rw)
                  /\ ro = rw
                  /\ Message(ro) # "Server is in read-only mode"

\* A delete_file was rejected in read-only mode although the sandbox holds
\* something to delete.
C2_Witness ==
    /\ config.read_only
    /\ fs = SeededSandbox
    /\ last.name = "delete_file"
    /\ last.result = ReadOnlyRejection(fs).ret

\* The invocations the transport delivers: each tool with a path, write_file
\* with a path and a content, an unknown tool, and mappings that lack a
\* required argument.
Invocations ==
    ({"list_files", "read_file", "create_directory", "delete_file"} \X PathArgs)
    \cup ({"write_file"} \X WriteArgs)
    \cup (UnknownTools \X PathArgs)
    \cup (ToolNames \X {<<>>})
    \cup ({"write_file"} \X PathArgs)

\* C3: call_tool returns a non-empty sequence of text segments for every tool
\* name and argument mapping and lets no fault out: an unknown name gives an
\* "Unknown tool" text, a fault inside an operation gives an "Error: ..."
\* text, and the server is still serving afterwards.
C3_NoFaultEscapes ==
    /\ lifecycle = "serving"
    /\ last.name # "none" => Len(last.result) >= 1
    /\ \A inv \in Invocations :
           LET r == call_tool(config, fs, inv[1], inv[2])
               o == operation(config, fs, inv[1], inv[2])
           IN /\ r.exc = "none"
              /\ Len(r.ret) >= 1
              /\ \A i \in 1..Len(r.ret) : r.ret[i].type = "text"
              /\ inv[1] \notin ToolNames =>
                     /\ r.ret = <<TextContent("Unknown tool: ", inv[1])>>
                     /\ r.fs = fs
              /\ o.exc # "none" => r.ret = <<TextContent("Error: ", o.exc)>>

\* A path-escape fault was turned into an "Error: ..." text and the server is
\* serving.
C3_Witness ==
    /\ lifecycle = "serving"
    /\ last.name = "read_file"
    /\ last.result = PathEscapeFailure

\* What write_file(p, c) returns and leaves in the current state.
Written(p, c) == call_tool(config, fs, "write_file", [path |-> p, content |-> c])

\* The file system accepts a regular file at t: t is not a directory and no
\* existing ancestor of t is anything but a directory.
CanHoldFile(f, t) ==
    /\ ~is_dir(f, t)
    /\ \A i \in 1..(Len(t) - 1) :
           SubSeq(t, 1, i) \in DOMAIN f => f[SubSeq(t, 1, i)].kind = "dir"

\* The cases C4 is about: a path that passes validation, an extension that is
\* permitted (or none), read_only false and a content that UTF-8 can encode.
SizeCase(p, c) ==
    /\ ~config.read_only
    /\ _validate_path(fs, p).exc = "none"
    /\ suffix(resolve(fs, p)) \in config.allowed_extensions \cup {<<>>}
    /\ encode(c).exc = "none"

SizeLimitRejection(f) ==
    Returns(f, "Content too large (max bytes)", <<config.max_file_size>>)

\* C4, as claimed: a content of more than max_file_size bytes is rejected
\* with the size-limit result and nothing changes; a content of at most
\* max_file_size bytes is written successfully.
C4_SizeBoundaryAsClaimed ==
    \A p \in InputPaths, c \in InputContents :
        SizeCase(p, c) =>
            LET n == Len(encode(c).ret)
            IN /\ n > config.max_file_size => Written(p, c) = SizeLimitRejection(fs)
               /\ n <= config.max_file_size =>
                      Message(Written(p, c)) = "File written successfully: "

\* C4, amended: a content of more than max_file_size bytes is rejected with
\* the size-limit result and nothing changes; a content of at most
\* max_file_size bytes is never rejected for its size: the call returns the
\* success confirmation or the "Error: ..." text of a file-system fault, and
\* it succeeds, leaving exactly the encoded bytes in the file, whenever the
\* target is not a directory and no ancestor of it is a regular file.
C4_SizeBoundary ==
    \A p \in InputPaths, c \in InputContents :
        SizeCase(p, c) =>
            LET n == Len(encode(c).ret)
                w == Written(p, c)
                t == resolve(fs, p)
            IN /\ n > config.max_file_size => w = SizeLimitRejection(fs)
               /\ n <= config.max_file_size =>
                      /\ Message(w) \in {"File written successfully: ", "Error: "}
                      /\ CanHoldFile(fs, t) =>
                             /\ w.ret = <<TextContent("File written successfully: ", p)>>
                             /\ t \in DOMAIN w.fs
                             /\ w.fs[t] = File(encode(c).ret)

\* A write was rejected for its size while the sandbox holds a file of
\* exactly max_file_size bytes that an earlier write_file left there.
C4_Witness ==
    /\ last.name = "write_file"
    /\ last.result = SizeLimitRejection(fs).ret
    /\ <<SB, NameD>> \in DOMAIN fs
    /\ fs[<<SB, NameD>>].kind = "file"
    /\ Len(fs[<<SB, NameD>>].data) = config.max_file_size

\* C5: a write_file whose validated path has an extension outside
\* allowed_extensions is rejected and changes nothing; with an allowed
\* extension, or with no extension at all, the extension check does not
\* reject ("a.b" is rejected, "d/a.t" and "d" are not).
C5_ExtensionPolicy ==
    ~config.read_only =>
        /\ \A p \in InputPaths, c \in InputContents :
               LET v == _validate_path(fs, p)
                   e == suffix(v.ret)
                   w == Written(p, c)
               IN v.exc = "none" =>
                      /\ (e # <<>> /\ e \notin config.allowed_extensions) =>
                             w = Returns(fs, "File extension not allowed: ", e)
                      /\ (e = <<>> \/ e \in config.allowed_extensions) =>
                             Message(w) # "File extension not allowed: "
        /\ \A c \in InputContents :
               /\ Written(NameAB, c) =
                      Returns(fs, "File extension not allowed: ", <<".", "b">>)
               /\ Message(Written(NameD \o <<Slash>> \o NameAT, c))
                      # "File extension not allowed: "
               /\ Message(Written(NameD, c)) # "File extension not allowed: "

\* A write to an extension outside the allow-list was rejected, and the
\* extensionless "d" has been written as a file.
C5_Witness ==
    /\ last.name = "write_file"
    /\ last.result = <<TextContent("File extension not allowed: ", <<".", "b">>)>>
    /\ <<SB, NameD>> \in DOMAIN fs
    /\ fs[<<SB, NameD>>].kind = "file"

\* C6: after a write_file(p, c) that returns the success confirmation, a
\* read_file(p) returns exactly c, every parent directory of p exists, and
\* the file holds c and nothing of what it held before.
C6_RoundTrip ==
    \A p \in InputPaths, c \in InputContents :
        LET w == Written(p, c)
            t == resolve(fs, p)
        IN Message(w) = "File written successfully: " =>
               /\ call_tool(config, w.fs, "read_file", [path |-> p]).ret
                      = <<TextContent("", c)>>
               /\ \A i \in 0..(Len(t) - 1) : is_dir(w.fs, SubSeq(t, 1, i))
               /\ w.fs[t] = File(encode(c).ret)

\* What delete_file(p) returns and leaves in the current state.
Deleted(p) == call_tool(config, fs, "delete_file", [path |-> p])

\* C7: delete_file never removes a directory that has children: on such a
\* directory it returns "not empty" and changes nothing; on an empty
\* directory it succeeds and the directory is gone; on a file it removes
\* exactly that file.
C7_NonEmptyDirectoryGuard ==
    \A p \in InputPaths :
        LET v == _validate_path(fs, p)
            t == v.ret
            r == Deleted(p)
        IN /\ \A q \in DOMAIN fs :
                  (fs[q].kind = "dir" /\ children(fs, q) # {}) => q \in DOMAIN r.fs
           /\ (~config.read_only /\ v.exc = "none" /\ is_dir(fs, t)) =>
                  IF children(fs, t) # {}
                  THEN r = Returns(fs, "Directory not empty: ", p)
                  ELSE r = Returns(Remove(fs, t), "Directory deleted successfully: ", p)
           /\ (~config.read_only /\ v.exc = "none" /\ is_file(fs, t)) =>
                  r = Returns(Remove(fs, t), "File deleted successfully: ", p)

\* delete_file("d") was refused because d holds d/a.t, which is still there.
C7_Witness ==
    /\ last.name = "delete_file"
    /\ last.result = <<TextContent("Directory not empty: ", NameD)>>
    /\ <<SB, NameD, NameAT>> \in DOMAIN fs

\* C8: the containment check comes first: for a path that resolves outside
\* the sandbox, write_file, create_directory and delete_file return the
\* path-escape failure, whatever read_only is.
C8_ValidationFirst ==
    \A p \in InputPaths :
        _validate_path(fs, p).exc # "none" =>
            /\ \A c \in InputContents : Written(p, c).ret = PathEscapeFailure
            /\ call_tool(config, fs, "create_directory", [path |-> p]).ret
                   = PathEscapeFailure
            /\ Deleted(p).ret = PathEscapeFailure

\* C10: the sandbox root exists as a directory after every sequence of
\* invocations.
C10_RootExists == is_dir(fs, sandbox_path)

----------------------------------------------------------------------------
(* Properties of the race specification. *)

DoesNotExistOrError == {"File does not exist: ", "Path does not exist: ", "Error: "}

\* Every text _read_file, _delete_file and call_tool's except clause return.
OrdinaryMessages ==
    DoesNotExistOrError
    \cup {"Path is not a file: ", "File too large (max bytes)",
          "Error: File contains non-UTF-8 content", "",
          "Server is in read-only mode", "File deleted successfully: ",
          "Directory deleted successfully: ", "Directory not empty: ",
          "Unknown path type: "}

\* C9, as claimed: when the out-of-process actor has removed the target of
\* the invocation, or put a file into it, between the validation and a later
\* file-system access, the invocation completes with a "does not exist" or an
\* "Error: ..." text.
C9_RaceSurfacesAsClaimed ==
    (pc = "idle" /\ cur.raced) =>
        last.result[1].text[1] \in DoesNotExistOrError

\* C9, amended: whatever the out-of-process actor does between the system
\* calls of an invocation, the invocation can always take its next step and
\* completes through call_tool with exactly one ordinary text (one of the
\* handler's own results, "not a file", "not empty" and "Unknown path type"
\* included, or "Error: ..."), and the server is still serving.
C9_RaceOutcome ==
    /\ lifecycle = "serving"
    /\ pc # "idle" => ENABLED ServerStep
    /\ (pc = "idle" /\ cur.tool # "none") =>
           /\ last.name = cur.tool
           /\ Len(last.result) = 1
           /\ last.result[1].type = "text"
           /\ last.result[1].text[1] \in OrdinaryMessages

\* The actor removed the target after the existence checks and the failed
\* file-system access came back as an "Error: ..." text.
C9_Witness ==
    /\ pc = "idle"
    /\ cur.raced
    /\ lifecycle = "serving"
    /\ last.result = <<TextContent("Error: ", "FileNotFoundError")>>

====
